---- MODULE Spec2Model ----
(***************************************************************************)
(* Model of nebula-x-assects/generate_svgs.py: the polygon path builder,   *)
(* the wordmark layout, and generate_assets writing nine SVG documents     *)
(* into OUTPUT_DIR.                                                        *)
(*                                                                         *)
(* Numbers.  The program computes coordinates as p*scale + offset with     *)
(* scales 0.5, 0.6, 0.8 and 3.0 on integer design points.  Here every      *)
(* real quantity (scale, offset, transformed coordinate, advance, radius)  *)
(* is carried exactly as an integer number of tenths, so 0.8 is 8 and the  *)
(* point (10, 90) is (100, 900).  The width and height handed to           *)
(* create_svg are the integers the program passes (int(width) truncates).  *)
(* Binary floating-point rounding of the printed decimals is not modelled. *)
(*                                                                         *)
(* Documents.  A path's d attribute is the sequence of its instructions    *)
(* (M x,y / L x,y / Z); a document body is the sequence of its elements in *)
(* the order the f-strings concatenate them; the text of a file is the     *)
(* sequence of chunks written to it since it was last truncated.           *)
(* Whitespace between elements is not modelled.                            *)
(***************************************************************************)
EXTENDS Integers, Sequences, FiniteSets, TLC

VARIABLES
    dirExists,  \* os.path.exists(OUTPUT_DIR)
    files,      \* filename -> [exists, text]: the files under OUTPUT_DIR
    pc,         \* position of the running generate_assets
    idx,        \* index of the next create_svg call (the failing one once pc = "failed")
    printed,    \* the "Created <filename>" lines printed by the current run
    attempted,  \* history: filenames whose open() the current run has attempted
    snapshot,   \* history: files and dirExists as they were when the current run started
    firstDone,  \* history: files as the first complete run left them
    runs,       \* number of runs started
    args,       \* arguments of the pure function under check
    result,     \* its return value
    pcall       \* "idle" | "ready" | "returned"

vars == <<dirExists, files, pc, idx, printed, attempted, snapshot, firstDone,
          runs, args, result, pcall>>

genVars == <<dirExists, files, pc, idx, printed, attempted, snapshot, firstDone, runs>>
callVars == <<args, result, pcall>>

----------------------------------------------------------------------------
(* Bounds *)

MaxRuns == 2        \* invocations of the script in one behaviour
MaxLen == 3         \* longest arbitrary point sequence handed to the path builder
MaxScaleT == 8      \* largest |scale| (in tenths) handed to get_wordmark_paths

----------------------------------------------------------------------------
(* Configuration, lines 3-14 *)

OUTPUT_DIR == "nebula-x-assets"

COLORS ==
    ("Deep Space" :> "#0B0D17") @@ ("Space Navy" :> "#111827") @@
    ("Nebula Purple" :> "#7C3AED") @@ ("Cosmic Cyan" :> "#06B6D4") @@
    ("Stellar Gold" :> "#F59E0B") @@ ("Starlight White" :> "#F1F5F9") @@
    ("Aurora Green" :> "#10B981") @@ ("Mars Red" :> "#EF4444")

----------------------------------------------------------------------------
(* Path instructions and the path builder *)

MoveTo(x, y) == [op |-> "M", x |-> x, y |-> y]
LineTo(x, y) == [op |-> "L", x |-> x, y |-> y]
ClosePath == [op |-> "Z", x |-> 0, y |-> 0]

\* "M " + " L ".join([f"{p[0]*scale + offset_x},{p[1]*scale + offset_y}" for p in points]) + " Z"
\* for a non-empty point list: the first joined coordinate follows the "M",
\* every later one follows an "L", and one "Z" ends the string.
BuildPath_NoClose(points, scale, offset_x, offset_y) ==
    [k \in 1..Len(points) |->
        IF k = 1
        THEN MoveTo(points[k][1] * scale + offset_x, points[k][2] * scale + offset_y)
        ELSE LineTo(points[k][1] * scale + offset_x, points[k][2] * scale + offset_y)]

BuildPath_SwapLast(points, scale, offset_x, offset_y) ==
    LET n == Len(points)
        q == [k \in 1..n |-> IF k = n - 1 THEN points[n]
                             ELSE IF k = n THEN points[n - 1] ELSE points[k]]
    IN  [k \in 1..(n + 1) |->
            IF k = 1
            THEN MoveTo(q[k][1] * scale + offset_x, q[k][2] * scale + offset_y)
            ELSE IF k <= n
            THEN LineTo(q[k][1] * scale + offset_x, q[k][2] * scale + offset_y)
            ELSE ClosePath]

BuildPath(points, scale, offset_x, offset_y) ==
    [k \in 1..(Len(points) + 1) |->
        IF k = 1
        THEN MoveTo(points[k][1] * scale + offset_x, points[k][2] * scale + offset_y)
        ELSE IF k <= Len(points)
        THEN LineTo(points[k][1] * scale + offset_x, points[k][2] * scale + offset_y)
        ELSE ClosePath]

\* The stylized N, line 25-27
n_mark_points_FromOrigin ==
    << <<0, 0>>, <<30, 0>>, <<70, 70>>, <<70, 0>>, <<100, 0>>, <<100, 100>>,
       <<70, 100>>, <<30, 30>>, <<30, 100>>, <<0, 100>> >>

n_mark_points ==
    << <<0, 100>>, <<0, 0>>, <<30, 0>>, <<70, 70>>, <<70, 0>>, <<100, 0>>,
       <<100, 100>>, <<70, 100>>, <<30, 30>>, <<30, 100>> >>

get_n_mark_path(scale, offset_x, offset_y) ==
    BuildPath(n_mark_points, scale, offset_x, offset_y)

\* The letter point lists of get_wordmark_paths
pts_e ==
    << <<0, 0>>, <<80, 0>>, <<80, 20>>, <<20, 20>>, <<20, 40>>, <<60, 40>>,
       <<60, 60>>, <<20, 60>>, <<20, 80>>, <<80, 80>>, <<80, 100>>, <<0, 100>> >>

pts_b_out ==
    << <<0, 0>>, <<60, 0>>, <<80, 20>>, <<80, 40>>, <<60, 50>>, <<80, 60>>,
       <<80, 80>>, <<60, 100>>, <<0, 100>> >>

pts_b_in1 == << <<20, 20>>, <<50, 20>>, <<60, 30>>, <<50, 40>>, <<20, 40>> >>

pts_b_in2 == << <<20, 60>>, <<50, 60>>, <<60, 70>>, <<50, 80>>, <<20, 80>> >>

pts_u ==
    << <<0, 0>>, <<20, 0>>, <<20, 80>>, <<60, 80>>, <<60, 0>>, <<80, 0>>,
       <<80, 100>>, <<0, 100>> >>

pts_l == << <<0, 0>>, <<20, 0>>, <<20, 80>>, <<80, 80>>, <<80, 100>>, <<0, 100>> >>

pts_a_out ==
    << <<40, 0>>, <<60, 0>>, <<100, 100>>, <<80, 100>>, <<70, 70>>, <<30, 70>>,
       <<20, 100>>, <<0, 100>> >>

pts_a_in_SameWinding == << <<40, 50>>, <<50, 20>>, <<60, 50>> >>

pts_a_in == << <<40, 50>>, <<60, 50>>, <<50, 20>> >>

pts_x ==
    << <<0, 0>>, <<25, 0>>, <<50, 40>>, <<75, 0>>, <<100, 0>>, <<65, 50>>,
       <<100, 100>>, <<75, 100>>, <<50, 60>>, <<25, 100>>, <<0, 100>>, <<35, 50>> >>

----------------------------------------------------------------------------
(* Elements of a document body *)

Element(tag, d, rule, attrs, nums, kids) ==
    [tag |-> tag, d |-> d, rule |-> rule, attrs |-> attrs, nums |-> nums, kids |-> kids]

\* <path d="..." fill="..." /> and <path d="..." fill-rule="evenodd" fill="..." />
PathEl(d, rule, fill) == Element("path", d, rule, <<fill>>, <<>>, <<>>)

----------------------------------------------------------------------------
(* get_wordmark_paths, lines 31-88 *)

\* x += units * scale
Advance_NoScale(x, units, scale) == x + units * 10

Advance(x, units, scale) == x + units * scale

\* Returns ("".join(paths), x): the seven letter paths in order and the pen
\* position after the last advance.
get_wordmark_paths(scale, start_x, start_y) ==
    LET x_n == start_x
        p_n == PathEl(get_n_mark_path(scale, x_n, start_y), "", "currentColor")
        x_e == Advance(x_n, 120, scale)
        p_e == PathEl(BuildPath(pts_e, scale, x_e, start_y), "", "currentColor")
        x_b == Advance(x_e, 100, scale)
        d_b == BuildPath(pts_b_out, scale, x_b, start_y)
               \o BuildPath(pts_b_in1, scale, x_b, start_y)
               \o BuildPath(pts_b_in2, scale, x_b, start_y)
        p_b == PathEl(d_b, "evenodd", "currentColor")
        x_u == Advance(x_b, 100, scale)
        p_u == PathEl(BuildPath(pts_u, scale, x_u, start_y), "", "currentColor")
        x_l == Advance(x_u, 100, scale)
        p_l == PathEl(BuildPath(pts_l, scale, x_l, start_y), "", "currentColor")
        x_a == Advance(x_l, 100, scale)
        d_a == BuildPath(pts_a_out, scale, x_a, start_y)
               \o BuildPath(pts_a_in, scale, x_a, start_y)
        p_a == PathEl(d_a, "evenodd", "currentColor")
        x_sp == Advance(x_a, 120, scale)
        x_x == Advance(x_sp, 40, scale)
        p_x == PathEl(BuildPath(pts_x, scale, x_x, start_y), "", "currentColor")
        x_end == Advance(x_x, 120, scale)
    IN  [paths |-> <<p_n, p_e, p_b, p_u, p_l, p_a, p_x>>, width |-> x_end]

----------------------------------------------------------------------------
(* generate_assets, lines 90-162: the documents *)

\* int(width) on a value in tenths: truncation toward zero, in whole units
int(t) == IF t >= 0 THEN t \div 10 ELSE -((-t) \div 10)

\* <g style="color:...">...</g> and <g>...</g>
Group(color, kids) == Element("g", <<>>, "", <<color>>, <<>>, kids)

\* <circle cx cy r fill opacity />, numbers in tenths
Circle(cx, cy, r, fill, opacity) == Element("circle", <<>>, "", <<fill, opacity>>, <<cx, cy, r>>, <<>>)

\* Common gradients, lines 95-102
defs ==
    Element("defs", <<>>, "",
            <<"nebula_gradient", COLORS["Nebula Purple"], COLORS["Cosmic Cyan"]>>,
            <<>>, <<>>)

\* 1. nebula-x-mark.svg, lines 105-106
mark_path == get_n_mark_path(8, 100, 100)
mark_content == <<defs, PathEl(mark_path, "", "url(#nebula_gradient)")>>

\* 2. nebula-x-splash.svg, lines 110-111
splash_path == get_n_mark_path(30, 500, 500)
splash_content == <<defs, PathEl(splash_path, "", "url(#nebula_gradient)")>>

\* 3. nebula-x-wordmark.svg, lines 115-116
wordmark == get_wordmark_paths(5, 0, 0)
wordmark_content == <<Group(COLORS["Starlight White"], wordmark.paths)>>

\* 4. nebula-x-logo-light.svg, lines 120-126
logo == get_wordmark_paths(5, 700, 150)
logo_mark == <<defs, PathEl(get_n_mark_path(6, 0, 100), "", "url(#nebula_gradient)")>>
logo_light_content == logo_mark \o <<Group(COLORS["Space Navy"], logo.paths)>>

\* 5. nebula-x-logo-dark.svg, lines 130-134
logo_dark_content == <<defs>> \o logo_mark \o <<Group(COLORS["Starlight White"], logo.paths)>>

\* 6. Ornate logos, lines 138-142
accent_path ==
    << MoveTo(500, -100), LineTo(520, -40), LineTo(580, -20), LineTo(520, 0),
       LineTo(500, 60), LineTo(480, 0), LineTo(420, -20), LineTo(480, -40), ClosePath >>

ornate_blobs ==
    << Circle((int(logo.width) - 10) * 10, 100, 50, COLORS["Stellar Gold"], "0.8"),
       Circle(100, 700, 30, COLORS["Cosmic Cyan"], "0.6"),
       PathEl(accent_path, "", COLORS["Stellar Gold"]) >>

\* 7. Pattern, lines 148-158
pattern_content ==
    << Element("defs/pattern", <<>>, "", <<"stars">>, <<0, 0, 1000, 1000>>,
               << Circle(100, 100, 15, COLORS["Starlight White"], "0.5"),
                  Circle(500, 600, 25, COLORS["Starlight White"], "0.3"),
                  Circle(800, 300, 20, COLORS["Stellar Gold"], "0.4") >>),
       Element("rect", <<>>, "", <<COLORS["Deep Space"]>>, <<>>, <<>>),
       Element("rect", <<>>, "", <<"url(#stars)">>, <<>>, <<>>) >>

Call(filename, width, height, content) ==
    [filename |-> filename, width |-> width, height |-> height, content |-> content]

\* The create_svg calls of generate_assets, in program order
generate_assets_FaviconFromSplash ==
    << Call("nebula-x-mark.svg", 100, 100, mark_content),
       Call("nebula-x-splash.svg", 400, 400, splash_content),
       Call("nebula-x-wordmark.svg", int(wordmark.width), 60, wordmark_content),
       Call("nebula-x-logo-light.svg", int(logo.width), 80, logo_light_content),
       Call("nebula-x-logo-dark.svg", int(logo.width), 80, logo_dark_content),
       Call("nebula-x-logo-ornate-light.svg", int(logo.width), 80,
            <<Group("", logo_light_content \o ornate_blobs)>>),
       Call("nebula-x-logo-ornate-dark.svg", int(logo.width), 80,
            <<Group("", logo_dark_content \o ornate_blobs)>>),
       Call("space-bg-pattern.svg", 400, 400, pattern_content),
       Call("favicon.svg", 100, 100, splash_content) >>

generate_assets ==
    << Call("nebula-x-mark.svg", 100, 100, mark_content),
       Call("nebula-x-splash.svg", 400, 400, splash_content),
       Call("nebula-x-wordmark.svg", int(wordmark.width), 60, wordmark_content),
       Call("nebula-x-logo-light.svg", int(logo.width), 80, logo_light_content),
       Call("nebula-x-logo-dark.svg", int(logo.width), 80, logo_dark_content),
       Call("nebula-x-logo-ornate-light.svg", int(logo.width), 80,
            <<Group("", logo_light_content \o ornate_blobs)>>),
       Call("nebula-x-logo-ornate-dark.svg", int(logo.width), 80,
            <<Group("", logo_dark_content \o ornate_blobs)>>),
       Call("space-bg-pattern.svg", 400, 400, pattern_content),
       Call("favicon.svg", 100, 100, mark_content) >>

NumCalls == Len(generate_assets)
Filenames == {generate_assets[i].filename : i \in 1..NumCalls}

\* f'<svg width="{width}" height="{height}" viewBox="0 0 {width} {height}" ...>\n{content}\n</svg>'
\* closed: the text runs to its final "</svg>"
Svg(width, height, content) ==
    [width |-> width, height |-> height, viewBox |-> <<0, 0, width, height>>,
     content |-> content, closed |-> TRUE]

\* What a failed f.write / close can leave behind: the first k body elements
Partial(svg, k) == [svg EXCEPT !.content = SubSeq(@, 1, k), !.closed = FALSE]

----------------------------------------------------------------------------
(* The output directory *)

NoFile == [exists |-> FALSE, text |-> <<>>]
FileOf(text) == [exists |-> TRUE, text |-> text]

\* A file left by something other than this version of the script
StaleFile == FileOf(<<Svg(1, 1, <<>>)>>)

EmptyDir == [f \in Filenames |-> NoFile]

\* A directory in which the first k output files already exist, stale
PriorDir(k) ==
    [f \in Filenames |->
        IF \E i \in 1..k : generate_assets[i].filename = f THEN StaleFile ELSE NoFile]

NeverDone == [valid |-> FALSE, files |-> EmptyDir]

----------------------------------------------------------------------------
(* generate_assets as a process: one step per call that touches the file system *)

Init ==
    /\ \/ dirExists = FALSE /\ files = EmptyDir
       \/ dirExists = TRUE /\ \E k \in 0..NumCalls : files = PriorDir(k)
    /\ pc = "start"
    /\ idx = 1
    /\ printed = <<>>
    /\ attempted = {}
    /\ snapshot = [dirExists |-> dirExists, files |-> files]
    /\ firstDone = NeverDone
    /\ runs = 1
    /\ args = <<>>
    /\ result = <<>>
    /\ pcall = "idle"

\* if not os.path.exists(OUTPUT_DIR): os.makedirs(OUTPUT_DIR)
MakeDirs_NoCreate ==
    /\ pc = "start"
    /\ ~dirExists
    /\ pc' = "write"
    /\ UNCHANGED <<dirExists, files, idx, printed, attempted, snapshot, firstDone, runs>>
    /\ UNCHANGED callVars

MakeDirs ==
    /\ pc = "start"
    /\ ~dirExists
    /\ dirExists' = TRUE
    /\ pc' = "write"
    /\ UNCHANGED <<files, idx, printed, attempted, snapshot, firstDone, runs>>
    /\ UNCHANGED callVars

\* os.path.exists(OUTPUT_DIR) is true: nothing to create
DirPresent ==
    /\ pc = "start"
    /\ dirExists
    /\ pc' = "write"
    /\ UNCHANGED <<dirExists, files, idx, printed, attempted, snapshot, firstDone, runs>>
    /\ UNCHANGED callVars

\* os.makedirs raises: the exception leaves generate_assets before any create_svg
MakeDirsFails ==
    /\ pc = "start"
    /\ ~dirExists
    /\ pc' = "failed"
    /\ idx' = 0
    /\ UNCHANGED <<dirExists, files, printed, attempted, snapshot, firstDone, runs>>
    /\ UNCHANGED callVars

\* create_svg, every statement succeeding: open(filepath, "w") truncates or
\* creates, f.write(svg) stores the document, print reports it
create_svg_Append ==
    /\ pc = "write"
    /\ dirExists
    /\ LET c == generate_assets[idx]
           svg == Svg(c.width, c.height, c.content)
       IN  /\ files' = [files EXCEPT ![c.filename] = FileOf(Append(@.text, svg))]
           /\ printed' = Append(printed, c.filename)
           /\ attempted' = attempted \cup {c.filename}
           /\ firstDone' = IF idx = NumCalls /\ ~firstDone.valid
                           THEN [valid |-> TRUE, files |-> files']
                           ELSE firstDone
    /\ idx' = idx + 1
    /\ pc' = IF idx = NumCalls THEN "done" ELSE "write"
    /\ UNCHANGED <<dirExists, snapshot, runs>>
    /\ UNCHANGED callVars

create_svg ==
    /\ pc = "write"
    /\ dirExists
    /\ LET c == generate_assets[idx]
           svg == Svg(c.width, c.height, c.content)
       IN  /\ files' = [files EXCEPT ![c.filename] = FileOf(<<svg>>)]
           /\ printed' = Append(printed, c.filename)
           /\ attempted' = attempted \cup {c.filename}
           /\ firstDone' = IF idx = NumCalls /\ ~firstDone.valid
                           THEN [valid |-> TRUE, files |-> files']
                           ELSE firstDone
    /\ idx' = idx + 1
    /\ pc' = IF idx = NumCalls THEN "done" ELSE "write"
    /\ UNCHANGED <<dirExists, snapshot, runs>>
    /\ UNCHANGED callVars

\* open(filepath, "w") raises (no directory, no permission): the file is
\* untouched and the exception leaves create_svg and generate_assets
create_svg_OpenFails ==
    /\ pc = "write"
    /\ attempted' = attempted \cup {generate_assets[idx].filename}
    /\ pc' = "failed"
    /\ UNCHANGED <<dirExists, files, idx, printed, snapshot, firstDone, runs>>
    /\ UNCHANGED callVars

\* open succeeded, then f.write or the close of the with-block raises: the
\* file exists, truncated, holding nothing or a prefix of the document
create_svg_WriteFails_PrintFirst ==
    /\ pc = "write"
    /\ dirExists
    /\ LET c == generate_assets[idx]
           svg == Svg(c.width, c.height, c.content)
       IN  /\ \/ files' = [files EXCEPT ![c.filename] = FileOf(<<>>)]
              \/ \E k \in 0..(Len(c.content) - 1) :
                    files' = [files EXCEPT ![c.filename] = FileOf(<<Partial(svg, k)>>)]
           /\ attempted' = attempted \cup {c.filename}
           /\ printed' = Append(printed, c.filename)
    /\ pc' = "failed"
    /\ UNCHANGED <<dirExists, idx, snapshot, firstDone, runs>>
    /\ UNCHANGED callVars

create_svg_WriteFails ==
    /\ pc = "write"
    /\ dirExists
    /\ LET c == generate_assets[idx]
           svg == Svg(c.width, c.height, c.content)
       IN  /\ \/ files' = [files EXCEPT ![c.filename] = FileOf(<<>>)]
              \/ \E k \in 0..(Len(c.content) - 1) :
                    files' = [files EXCEPT ![c.filename] = FileOf(<<Partial(svg, k)>>)]
           /\ attempted' = attempted \cup {c.filename}
    /\ pc' = "failed"
    /\ UNCHANGED <<dirExists, idx, printed, snapshot, firstDone, runs>>
    /\ UNCHANGED callVars

\* The script is invoked again (python generate_svgs.py), after a complete or
\* a failed run, on the directory as that run left it
Rerun ==
    /\ pc \in {"done", "failed"}
    /\ runs < MaxRuns
    /\ runs' = runs + 1
    /\ pc' = "start"
    /\ idx' = 1
    /\ printed' = <<>>
    /\ attempted' = {}
    /\ snapshot' = [dirExists |-> dirExists, files |-> files]
    /\ UNCHANGED <<dirExists, files, firstDone>>
    /\ UNCHANGED callVars

Next ==
    \/ MakeDirs
    \/ DirPresent
    \/ MakeDirsFails
    \/ create_svg
    \/ create_svg_OpenFails
    \/ create_svg_WriteFails
    \/ Rerun

Spec == Init /\ [][Next]_vars

----------------------------------------------------------------------------
(* The path builder on arbitrary point sequences *)

\* Points of the design grid, enough to repeat a point within a sequence
PointPool == { <<0, 0>>, <<0, 100>>, <<30, 0>>, <<70, 70>> }

PointSeqs == UNION { [1..n -> PointPool] : n \in 2..MaxLen }

\* The scales the program passes (0.5, 0.6, 0.8, 3.0), and offsets around its own
PathScales == {5, 6, 8, 30}
PathOffsetsX == {-100, 0, 100}
PathOffsetsY == {0, 150}

IdleGenerator ==
    /\ dirExists = FALSE
    /\ files = EmptyDir
    /\ pc = "idle"
    /\ idx = 1
    /\ printed = <<>>
    /\ attempted = {}
    /\ snapshot = [dirExists |-> FALSE, files |-> EmptyDir]
    /\ firstDone = NeverDone
    /\ runs = 0

InitPath ==
    /\ IdleGenerator
    /\ args \in [points : PointSeqs, scale : PathScales,
                 offset_x : PathOffsetsX, offset_y : PathOffsetsY]
    /\ result = <<>>
    /\ pcall = "ready"

CallBuildPath ==
    /\ pcall = "ready"
    /\ result' = BuildPath(args.points, args.scale, args.offset_x, args.offset_y)
    /\ pcall' = "returned"
    /\ UNCHANGED args
    /\ UNCHANGED genVars

NextPath == CallBuildPath

SpecPath == InitPath /\ [][NextPath]_vars

----------------------------------------------------------------------------
(* get_wordmark_paths on a range of scales and start positions *)

WordScales == (-MaxScaleT)..MaxScaleT
WordStartsX == {-4000, -800, 0, 700}
WordStartsY == {0, 150}

InitWord ==
    /\ IdleGenerator
    /\ args \in [scale : WordScales, start_x : WordStartsX, start_y : WordStartsY]
    /\ result = <<>>
    /\ pcall = "ready"

CallWordmark ==
    /\ pcall = "ready"
    /\ result' = get_wordmark_paths(args.scale, args.start_x, args.start_y)
    /\ pcall' = "returned"
    /\ UNCHANGED args
    /\ UNCHANGED genVars

NextWord == CallWordmark

SpecWord == InitWord /\ [][NextWord]_vars


----------------------------------------------------------------------------
(* Reading paths and documents *)

RECURSIVE SplitAtClose(_, _, _)
\* The subpaths of d: each runs up to and including a close instruction; a
\* tail with no close is the last subpath
SplitAtClose(d, i, cur) ==
    IF i > Len(d)
    THEN IF cur = <<>> THEN <<>> ELSE <<cur>>
    ELSE IF d[i].op = "Z"
         THEN <<Append(cur, d[i])>> \o SplitAtClose(d, i + 1, <<>>)
         ELSE SplitAtClose(d, i + 1, Append(cur, d[i]))

Subpaths(d) == SplitAtClose(d, 1, <<>>)

IsVertex(ins) == ins.op # "Z"
Vertices(d) == SelectSeq(d, IsVertex)
CountOp(d, op) == Cardinality({k \in 1..Len(d) : d[k].op = op})

RECURSIVE ShoelaceFrom(_, _)
ShoelaceFrom(v, k) ==
    IF k > Len(v) THEN 0
    ELSE LET nxt == IF k = Len(v) THEN 1 ELSE k + 1
         IN  v[k].x * v[nxt].y - v[nxt].x * v[k].y + ShoelaceFrom(v, k + 1)

\* Twice the signed area of the polygon a subpath traces
SignedArea2(sub) == ShoelaceFrom(Vertices(sub), 1)
Sign(n) == IF n > 0 THEN 1 ELSE IF n < 0 THEN -1 ELSE 0

\* A well-formed closed subpath: one move first, lines after it, one close last
ClosedSubpath(sub) ==
    /\ Len(sub) >= 3
    /\ sub[1].op = "M"
    /\ \A k \in 2..(Len(sub) - 1) : sub[k].op = "L"
    /\ sub[Len(sub)].op = "Z"

RECURSIVE PathsOf(_, _)
\* Every path d attribute of elems[k..], nested elements included, in document order
PathsOf(elems, k) ==
    IF k > Len(elems) THEN <<>>
    ELSE (IF elems[k].tag = "path" THEN <<elems[k].d>> ELSE <<>>)
         \o PathsOf(elems[k].kids, 1) \o PathsOf(elems, k + 1)

\* The document a complete write of call i stores
DocOf(i) == Svg(generate_assets[i].width, generate_assets[i].height, generate_assets[i].content)

\* The current run has written call i's file and reported it
Written(i) == i < idx /\ pc \in {"write", "done", "failed"} /\ Len(printed) >= i

InFrame(d, width, height) ==
    \A k \in 1..Len(d) :
        IsVertex(d[k]) =>
            /\ 0 <= d[k].x /\ d[k].x <= width * 10
            /\ 0 <= d[k].y /\ d[k].y <= height * 10

----------------------------------------------------------------------------
(* Claims *)

\* C1: for every point sequence p of length >= 2, positive scale and offset,
\* the built path is len(p) move/line instructions then one close: the first
\* a move to the transformed p[0], the k-th a line to the transformed p[k],
\* in input order, nothing reordered, dropped or deduplicated.
C1_PathFollowsInput ==
    pcall = "returned" =>
        LET p == args.points
            n == Len(p)
            tx(q) == q[1] * args.scale + args.offset_x
            ty(q) == q[2] * args.scale + args.offset_y
        IN  /\ Len(result) = n + 1
            /\ result[1] = [op |-> "M", x |-> tx(p[1]), y |-> ty(p[1])]
            /\ \A k \in 2..n : result[k] = [op |-> "L", x |-> tx(p[k]), y |-> ty(p[k])]
            /\ result[n + 1].op = "Z"
            /\ CountOp(result, "Z") = 1
            /\ CountOp(result, "M") + CountOp(result, "L") = n

\* The boundary case of two points, here twice the same point
C1_Witness ==
    /\ pcall = "returned"
    /\ Len(args.points) = 2
    /\ args.points[1] = args.points[2]
    /\ Len(result) = 3

\* C2 as stated: the mark asset's path starts at (10,10), the image of (0,0)
C2_FirstPointIsTenTen ==
    Written(1) /\ files["nebula-x-mark.svg"].text = <<DocOf(1)>> =>
        LET d == PathsOf(files["nebula-x-mark.svg"].text[1].content, 1)[1]
        IN  d[1] = [op |-> "M", x |-> 100, y |-> 100]

\* C2 amended: the mark asset's path (scale 0.8, offset (10,10), ten points)
\* starts at (10,90), the image of the outline's first point (0,100); (10,10),
\* the image of (0,0), is its second point.
C2_FirstPointIsTenNinety ==
    Written(1) /\ files["nebula-x-mark.svg"].text = <<DocOf(1)>> =>
        LET d == PathsOf(files["nebula-x-mark.svg"].text[1].content, 1)[1]
        IN  /\ Len(Vertices(d)) = 10
            /\ d[1] = [op |-> "M", x |-> 100, y |-> 900]
            /\ d[2] = [op |-> "L", x |-> 100, y |-> 100]

C2_Witness ==
    /\ Written(1)
    /\ idx = 2
    /\ files["nebula-x-mark.svg"].text = <<DocOf(1)>>

\* Design-grid advance in front of each of N, E, B, U, L, A, X: the sum of
\* 120, 100, 100, 100, 100, 120 before it, and for X the 40-unit word space too
AdvanceBefore == <<0, 120, 220, 320, 420, 520, 680>>

\* The image of design x = 0, which every glyph's outline touches
LeftEdge(d, scale) ==
    LET xs == {d[k].x : k \in {j \in 1..Len(d) : IsVertex(d[j])}}
    IN  IF scale >= 0 THEN CHOOSE x \in xs : \A y \in xs : x <= y
        ELSE CHOOSE x \in xs : \A y \in xs : x >= y

WidthAndOffsets ==
    /\ result.width = args.start_x + args.scale * (120 + 100 + 100 + 100 + 100 + 120 + 40 + 120)
    /\ Len(result.paths) = 7
    /\ \A i \in 1..7 :
          LeftEdge(result.paths[i].d, args.scale)
              = args.start_x + args.scale * AdvanceBefore[i]
    /\ (args.scale = 5 /\ args.start_x = 0 =>
          int(result.width) = 400 /\ generate_assets[3].width = 400)

\* C3 as stated, read on the positive scales alone: for every such scale and
\* every start_x the width is start_x + scale*800, is greater than zero, and
\* each glyph sits at its prefix of advances
C3_WidthAlwaysPositive ==
    pcall = "returned" /\ args.scale > 0 => WidthAndOffsets /\ result.width > 0

\* C3 amended: for every scale and start_x the returned width is
\* start_x + scale*800 and each glyph is drawn at start_x + scale*(advances
\* before it, the word space included for X); the width is greater than zero
\* for every positive scale with start_x >= 0; at scale 0.5 and start_x = 0 the
\* wordmark frame width is 400.
C3_WidthIsSumOfAdvances ==
    pcall = "returned" =>
        /\ WidthAndOffsets
        /\ (args.scale > 0 /\ args.start_x >= 0 => result.width > 0)

C3_Witness ==
    /\ pcall = "returned"
    /\ args.scale = 5
    /\ args.start_x = 0
    /\ result.width = 4000

ExpectedFiles ==
    { "nebula-x-mark.svg", "nebula-x-splash.svg", "nebula-x-wordmark.svg",
      "nebula-x-logo-light.svg", "nebula-x-logo-dark.svg",
      "nebula-x-logo-ornate-light.svg", "nebula-x-logo-ornate-dark.svg",
      "space-bg-pattern.svg", "favicon.svg" }

\* C4: a run started without the output directory creates it before it
\* attempts any file write, and once the run completes every expected output
\* file is present.
C4_DirBeforeWritesAllPresent ==
    ~snapshot.dirExists =>
        /\ (attempted # {} => dirExists)
        /\ (pc = "done" =>
              \A f \in ExpectedFiles : f \in DOMAIN files /\ files[f].exists)

C4_Witness ==
    /\ ~snapshot.dirExists
    /\ pc = "done"
    /\ attempted = ExpectedFiles

\* What every complete run leaves, whatever it started from
Golden == [f \in Filenames |->
             FileOf(<<DocOf(CHOOSE i \in 1..NumCalls : generate_assets[i].filename = f)>>)]

\* C5: a complete run leaves every output file with the same content as the
\* first complete run did, and with the same content whatever the directory
\* held before (absent, empty, stale files, a failed run's leftovers).
C5_RunsLeaveSameContent ==
    pc = "done" =>
        /\ firstDone.valid
        /\ files = firstDone.files
        /\ files = Golden

\* A second run on the directory a complete first run populated
C5_Witness ==
    /\ pc = "done"
    /\ runs = 2
    /\ firstDone.valid
    /\ snapshot.files = firstDone.files

\* C6: when the write of asset idx fails, the assets before it are on disk
\* with their full content and were the only ones confirmed, and no asset
\* after it was attempted: those files are as the run found them.
C6_FailureStopsTheRun ==
    pc = "failed" /\ idx >= 1 =>
        /\ Len(printed) = idx - 1
        /\ \A j \in 1..NumCalls :
              LET f == generate_assets[j].filename
              IN  /\ (j < idx => files[f] = FileOf(<<DocOf(j)>>) /\ printed[j] = f)
                  /\ (j > idx => files[f] = snapshot.files[f] /\ f \notin attempted)

\* The fifth write failed after truncating its file, which had stale content
C6_Witness ==
    /\ pc = "failed"
    /\ idx = 5
    /\ files[generate_assets[5].filename] = FileOf(<<>>)
    /\ snapshot.files[generate_assets[5].filename] = StaleFile
    /\ snapshot.files[generate_assets[6].filename] = StaleFile

\* C7: after a complete run favicon.svg and nebula-x-mark.svg hold the same
\* document, framed 100x100.
C7_FaviconEqualsMark ==
    pc = "done" =>
        /\ files["favicon.svg"].exists
        /\ files["favicon.svg"] = files["nebula-x-mark.svg"]
        /\ Len(files["favicon.svg"].text) = 1
        /\ files["favicon.svg"].text[1].width = 100
        /\ files["favicon.svg"].text[1].height = 100
        /\ files["favicon.svg"].text[1].viewBox = <<0, 0, 100, 100>>

C7_Witness ==
    /\ pc = "done"
    /\ runs = 1
    /\ files["favicon.svg"].exists
    /\ files["nebula-x-mark.svg"].exists

\* The letters drawn with more than one contour: B (third) and A (sixth)
HoleLetters == {i \in 1..Len(result.paths) : Len(Subpaths(result.paths[i].d)) > 1}

\* C8 as stated: in every letter with holes each inner contour winds
\* opposite to the outer one, and the path is tagged even-odd
C8_InnerWindsOpposite ==
    pcall = "returned" /\ args.scale > 0 =>
        \A i \in HoleLetters :
            LET sp == Subpaths(result.paths[i].d)
            IN  /\ result.paths[i].rule = "evenodd"
                /\ \A j \in 2..Len(sp) :
                      Sign(SignedArea2(sp[j])) = -Sign(SignedArea2(sp[1]))

\* C8 amended: the letters with holes are B (two inner contours) and A (one),
\* both tagged even-odd and no other letter is; A's inner contour winds
\* opposite to A's outer contour, while both inner contours of B wind the
\* same way as B's outer contour.
C8_EvenOddHoles ==
    pcall = "returned" /\ args.scale > 0 =>
        /\ HoleLetters = {3, 6}
        /\ \A i \in 1..Len(result.paths) :
              result.paths[i].rule = (IF i \in HoleLetters THEN "evenodd" ELSE "")
        /\ LET b == Subpaths(result.paths[3].d)
               a == Subpaths(result.paths[6].d)
           IN  /\ Len(b) = 3
               /\ Len(a) = 2
               /\ Sign(SignedArea2(b[1])) # 0
               /\ Sign(SignedArea2(b[2])) = Sign(SignedArea2(b[1]))
               /\ Sign(SignedArea2(b[3])) = Sign(SignedArea2(b[1]))
               /\ Sign(SignedArea2(a[1])) # 0
               /\ Sign(SignedArea2(a[2])) = -Sign(SignedArea2(a[1]))

C8_Witness ==
    /\ pcall = "returned"
    /\ args.scale = 5
    /\ HoleLetters = {3, 6}

\* C9: every contour the program traces (the N, E, U, L, X outlines and each
\* outer and inner contour of B and A) has at least two points, starts and
\* ends on distinct points, and is traced as a move, lines, and exactly one
\* close instruction at its end.
C9_ContoursClose ==
    pcall = "returned" /\ args.scale # 0 =>
        \A i \in 1..Len(result.paths) :
            LET sp == Subpaths(result.paths[i].d)
            IN  /\ Len(sp) >= 1
                /\ \A j \in 1..Len(sp) :
                      LET v == Vertices(sp[j])
                      IN  /\ ClosedSubpath(sp[j])
                          /\ CountOp(sp[j], "Z") = 1
                          /\ Len(v) >= 2
                          /\ <<v[1].x, v[1].y>> # <<v[Len(v)].x, v[Len(v)].y>>

\* All ten contours traced: 1 + 1 + 3 + 1 + 1 + 2 + 1
C9_Witness ==
    /\ pcall = "returned"
    /\ args.scale # 0
    /\ Len(result.paths) = 7
    /\ Len(Subpaths(result.paths[1].d)) + Len(Subpaths(result.paths[2].d))
         + Len(Subpaths(result.paths[3].d)) + Len(Subpaths(result.paths[4].d))
         + Len(Subpaths(result.paths[5].d)) + Len(Subpaths(result.paths[6].d))
         + Len(Subpaths(result.paths[7].d)) = 10

\* C10: in every asset the run has written, every vertex of every path lies
\* inside the frame declared for the asset: 0 <= x <= width, 0 <= y <= height.
C10_VerticesInsideFrame ==
    \A i \in 1..NumCalls :
        Written(i) /\ files[generate_assets[i].filename].text = <<DocOf(i)>> =>
            LET doc == files[generate_assets[i].filename].text[1]
                ds == PathsOf(doc.content, 1)
            IN  \A k \in 1..Len(ds) : InFrame(ds[k], doc.width, doc.height)

====
